---- MODULE Spec2Model ----
(***************************************************************************)
(* prom_multi_proc: the metric registry (registry.go), the ingestion       *)
(* pipeline (prom_multi_proc.go) and the control loop of main.             *)
(*                                                                         *)
(* Strings are sequences of one-character strings, so that the regular     *)
(* expression of validateMetric and the concatenation inside               *)
(* MetricSpec.Hash are computed character by character.                    *)
(***************************************************************************)
EXTENDS Integers, Sequences, FiniteSets, TLC

VARIABLES
    mutated,     \* the *MetricSpec object the caller has modified in place (0: none)
    handlers,    \* ireg.handlers: name -> MetricHandler {spec pointer, collector}
    registered,  \* collectors registered with the exposition surface
    collVal,     \* collector id -> number of updates applied to it
    mu,          \* ireg.mu: "free" or the goroutine holding it
    lastCall,    \* the last Registry call and its arguments
    lastRes      \* what that call logged / returned, and the map before it

regVars == <<mutated, handlers, registered, collVal, mu, lastCall, lastRes>>

VARIABLES
    ctlPc,        \* control loop of main: "load", "reload", "isempty",
                  \* "process" (inside registry.Process), "failed" (ended
                  \* on a load error) or "exited" (ended on an empty
                  \* registry)
    ctlSpecs,     \* specs, the result of LoadSpecs
    procPc,       \* Process: "idle" (not running), "select" or "handle"
    stopped,      \* Process has returned on a stop signal and not run since
    cur,          \* the update Process received and is handling
    sigu,         \* USR1 signals buffered in sigu (capacity 1)
    usr1Pc,       \* USR1 goroutine: "wait" (<-sigu) or "send" (doneCh <- true)
    readerPc,     \* DataReader: "accept" or "send" (dataCh <- buf.Bytes())
    readerBuf,    \* the payload DataReader read from its connection
    conns,        \* calls of ln.Accept that have returned
    decPc,        \* DataParser d: "recv" (<-dataCh) or "send" (metricCh <- ...)
    decData,      \* DataParser d: the payload it holds
    decIdx,       \* DataParser d: i, the update it is about to send
    handled,      \* update id -> number of times doHandle was called with it
    metricsTotal, \* pmp_metrics_total by status
    decoded,      \* connection -> number of updates its payload decoded to
    faults,       \* ingestion faults so far: accept errors, payloads that
                  \* did not decode
    track         \* FALSE: counters and update ids are not kept

pipeVars == <<ctlPc, ctlSpecs, procPc, stopped, cur, sigu, usr1Pc, readerPc, readerBuf,
              conns, decPc, decData, decIdx, handled, metricsTotal, decoded,
              faults, track>>

VARIABLES
    callPc,      \* goroutine calling the Registry -> where it is in its call
    callOp,      \* goroutine -> the Registry method it is in ("" for none)
    callLoc      \* goroutine -> the local variables of its call

callVars == <<callPc, callOp, callLoc>>

VARIABLES
    ln,          \* the listener: "open" or "closed"
    termPc,      \* termination goroutine: "wait" (<-sigc), "close"
                 \* (ln.Close()), "exit" (os.Exit(0)) or "gone" (the process
                 \* has ended)
    seenClosed   \* ln.Accept has returned the error of a closed listener

termVars == <<ln, termPc, seenClosed>>

vars == <<regVars, pipeVars, callVars, termVars>>

-----------------------------------------------------------------------------
(* Bounds *)

MaxSpecs == 2      \* longest spec list handed to Reload
MaxUpdates == 1    \* updates applied to the collectors that are alive
MaxRefuse == 1     \* calls the exposition surface refuses during one Reload
MaxConn == 1       \* calls of ln.Accept that are followed through
MaxNameLen == 3    \* longest metric name handed to register on its own
MaxLabels == 2     \* longest label list handed to register on its own
NumWorkers == 2    \* runtime.NumCPU(): the DataParser goroutines

-----------------------------------------------------------------------------
(* Characters and strings *)

Lower == {"a","b","c","d","e","f","g","h","i","j","k","l","m",
          "n","o","p","q","r","s","t","u","v","w","x","y","z"}
Digit == {"0","1","2","3","4","5","6","7","8","9"}

RECURSIVE Join(_, _)
\* fmt "%+v" of a slice prints its elements separated by one space
Join(ss, sep) ==
    IF Len(ss) = 0 THEN <<>>
    ELSE IF Len(ss) = 1 THEN ss[1]
    ELSE ss[1] \o sep \o Join(Tail(ss), sep)

FmtSlice(ss) == <<"[">> \o Join(ss, <<" ">>) \o <<"]">>

\* fmt "%+v" of a map[string]float64: map[k:v k:v], keys sorted; the
\* objectives are kept as a key-sorted sequence of <<key, printed value>>
FmtMap(kvs) ==
    <<"m","a","p","[">>
    \o Join([i \in 1..Len(kvs) |-> kvs[i][1] \o <<":">> \o kvs[i][2]], <<" ">>)
    \o <<"]">>

CounterT == <<"c","o","u","n","t","e","r">>
GaugeT == <<"g","a","u","g","e">>
HistogramT == <<"h","i","s","t","o","g","r","a","m">>
SummaryT == <<"s","u","m","m","a","r","y">>

-----------------------------------------------------------------------------
(* MetricSpec *)

\* md5 is taken to be injective on the bytes written to it: the
\* fingerprint is the concatenation the code feeds to the digest
Hash(ms) ==
    ms.Type \o ms.Help \o FmtSlice(ms.Labels) \o FmtSlice(ms.Buckets)
    \o FmtMap(ms.Objectives)

\* registry.go:87, the comparison of the two fingerprints
SameHashMut(old, new) == Hash(old) # Hash(new)
SameHash(old, new) == Hash(old) = Hash(new)

\* metricRe = ^[a-z]+[0-9a-z_]+$ : a lowercase letter, then at least one
\* more character, each a lowercase letter, a digit or an underscore
metricRe(s) ==
    /\ Len(s) >= 2
    /\ s[1] \in Lower
    /\ \A i \in 2..Len(s) : s[i] \in Lower \cup Digit \cup {"_"}

\* TRUE when validateMetric returns nil
validateMetric(name) == metricRe(name)

\* TRUE when validateLabels returns nil: the outer loop runs i over
\* 0..n-2, so the last label is compared but never matched against metricRe
validateLabels(labels) ==
    \A i \in 1..(Len(labels) - 1) :
        /\ validateMetric(labels[i])
        /\ \A j \in (i + 1)..Len(labels) : labels[i] # labels[j]

\* strconv.ParseFloat on an objective key, for keys written with digits
\* and a decimal point
ParseFloatOk(s) ==
    /\ Len(s) >= 1
    /\ \A i \in 1..Len(s) : s[i] \in Digit \cup {"."}
    /\ \E i \in 1..Len(s) : s[i] \in Digit
    /\ Cardinality({i \in 1..Len(s) : s[i] = "."}) <= 1

\* TRUE when validateObjectives returns no error
validateObjectives(objectives) ==
    \A i \in 1..Len(objectives) : ParseFloatOk(objectives[i][1])

-----------------------------------------------------------------------------
(* The exposition surface (prometheus default registerer).  It is an       *)
(* external collaborator: besides its own rules it may refuse a call, which *)
(* the oracle o = [blocked, sticky] decides: the names it refuses to        *)
(* register and the collectors it refuses to unregister.                    *)

\* prometheus.Register returns nil
SurfaceRegisterOk(reg, coll, o) ==
    /\ coll.name \notin o.blocked
    /\ \A c \in reg : c.name # coll.name

\* prometheus.Unregister returns true
SurfaceUnregisterOk(reg, coll, o) ==
    /\ coll \in reg
    /\ coll.id \notin o.sticky

-----------------------------------------------------------------------------
(* Registry *)

Put(f, k, v) == [x \in DOMAIN f \cup {k} |-> IF x = k THEN v ELSE f[x]]
Del(f, k) == [x \in DOMAIN f \ {k} |-> f[x]]

\* doNames: the keys of the map (each once, in no particular order)
doNames(h) == DOMAIN h

\* buildHandler: one of the eight handler variants around a new collector,
\* or an error; p is the *MetricSpec the handler keeps, id the identity of
\* the collector it creates
buildHandler(spec, p, id) ==
    LET mk(kind, vecKind) ==
            IF Len(spec.Labels) = 0
            THEN [err |-> "",
                  handler |-> [spec |-> p, kind |-> kind,
                               coll |-> [id |-> id, name |-> spec.Name,
                                         labels |-> 0]]]
            ELSE IF ~validateLabels(spec.Labels)
            THEN [err |-> "labels"]
            ELSE [err |-> "",
                  handler |-> [spec |-> p, kind |-> vecKind,
                               coll |-> [id |-> id, name |-> spec.Name,
                                         labels |-> Len(spec.Labels)]]]
    IN  IF spec.Type = CounterT THEN mk("CounterHandler", "CounterVecHandler")
        ELSE IF spec.Type = GaugeT THEN mk("GaugeHandler", "GaugeVecHandler")
        ELSE IF spec.Type = HistogramT THEN mk("HistogramHandler", "HistogramVecHandler")
        ELSE IF spec.Type = SummaryT
        THEN IF Len(spec.Objectives) > 0 /\ ~validateObjectives(spec.Objectives)
             THEN [err |-> "objectives"]
             ELSE mk("SummaryHandler", "SummaryVecHandler")
        ELSE [err |-> "type"]

\* the identity of a collector about to be created: one that no collector
\* alive since the call began has
FreshId(used) == CHOOSE id \in 1..(Cardinality(used) + 1) : id \notin used

\* register, lines 106-111: register the collector of `handler` and store
\* the handler under the name
registerStore(s, name, handler, o) ==
    IF ~SurfaceRegisterOk(s.registered, handler.coll, o)
    THEN [s |-> s, err |-> "register"]
    ELSE [s |-> [handlers |-> Put(s.handlers, name, handler),
                 registered |-> s.registered \cup {handler.coll},
                 used |-> s.used \cup {handler.coll.id}],
          err |-> ""]

\* register(spec): s is the registry and the surface (and the collector
\* identities in use), p the *MetricSpec, hp the heap; the result is the new
\* state and the error ("" for nil)
register(s, p, hp, o) ==
    LET spec == hp[p]
    IN  IF ~validateMetric(spec.Name) THEN [s |-> s, err |-> "name"]
        ELSE IF spec.Name \in DOMAIN s.handlers
        THEN LET handler == s.handlers[spec.Name]
             IN  IF SameHash(hp[handler.spec], spec)
                 THEN [s |-> s, err |-> ""]
                 ELSE IF ~SurfaceUnregisterOk(s.registered, handler.coll, o)
                 THEN [s |-> s, err |-> "re-register"]
                 ELSE registerStore(
                          [s EXCEPT !.registered = @ \ {handler.coll},
                                    !.handlers = Del(@, spec.Name)],
                          spec.Name, handler, o)
        ELSE LET b == buildHandler(spec, p, FreshId(s.used))
             IN  IF b.err # "" THEN [s |-> s, err |-> b.err]
                 ELSE registerStore(s, spec.Name, b.handler, o)

\* unregister that removes the map entry whatever the surface answers
unregisterMut(s, name, o) ==
    IF name \notin DOMAIN s.handlers THEN [s |-> s, err |-> "does not exist"]
    ELSE LET handler == s.handlers[name]
         IN  IF ~SurfaceUnregisterOk(s.registered, handler.coll, o)
             THEN [s |-> [s EXCEPT !.handlers = Del(@, name)],
                   err |-> "unregister"]
             ELSE [s |-> [s EXCEPT !.registered = @ \ {handler.coll},
                                   !.handlers = Del(@, name)],
                   err |-> ""]

\* unregister(name)
unregister(s, name, o) ==
    IF name \notin DOMAIN s.handlers THEN [s |-> s, err |-> "does not exist"]
    ELSE LET handler == s.handlers[name]
         IN  IF ~SurfaceUnregisterOk(s.registered, handler.coll, o)
             THEN [s |-> s, err |-> "unregister"]
             ELSE [s |-> [s EXCEPT !.registered = @ \ {handler.coll},
                                   !.handlers = Del(@, name)],
                   err |-> ""]

\* sliceSubStr(a, b): the strings of a that are not in b
sliceSubStr(a, b) == a \ b

RECURSIVE registerAllMut(_, _, _, _, _)
\* a loop over the specs that stops at the first spec register refuses
registerAllMut(s, specs, hp, o, errs) ==
    IF Len(specs) = 0 THEN [s |-> s, errs |-> errs]
    ELSE LET r == register(s, Head(specs), hp, o)
         IN  IF r.err # "" THEN [s |-> r.s, errs |-> Append(errs, r.err)]
             ELSE registerAllMut(r.s, Tail(specs), hp, o, Append(errs, r.err))

RECURSIVE registerAll(_, _, _, _, _)
\* Reload, lines 136-143: register every spec in order; errs collects the
\* error logged for each
registerAll(s, specs, hp, o, errs) ==
    IF Len(specs) = 0 THEN [s |-> s, errs |-> errs]
    ELSE LET r == register(s, Head(specs), hp, o)
         IN  registerAll(r.s, Tail(specs), hp, o, Append(errs, r.err))

RECURSIVE unregisterAll(_, _, _, _)
\* Reload, lines 147-153: unregister every name of unreg; errs maps each
\* to the error logged for it
unregisterAll(s, unreg, o, errs) ==
    IF unreg = {} THEN [s |-> s, errs |-> errs]
    ELSE LET name == CHOOSE n \in unreg : TRUE
             r == unregister(s, name, o)
         IN  unregisterAll(r.s, unreg \ {name}, o, Put(errs, name, r.err))

\* a Reload that leaves out of newNames the specs register refused
ReloadMut(s, specs, hp, o) ==
    LET names == doNames(s.handlers)
        reg == registerAll(s, specs, hp, o, <<>>)
        newNames == {hp[specs[i]].Name :
                         i \in {j \in 1..Len(specs) : reg.errs[j] = ""}}
        unreg == sliceSubStr(names, newNames)
        unr == unregisterAll(reg.s, unreg, o, <<>>)
    IN  [s |-> unr.s, regErr |-> reg.errs, unregErr |-> unr.errs]

\* Reload(specs) between Lock and Unlock
Reload(s, specs, hp, o) ==
    LET names == doNames(s.handlers)
        newNames == {hp[specs[i]].Name : i \in 1..Len(specs)}
        reg == registerAll(s, specs, hp, o, <<>>)
        unreg == sliceSubStr(names, newNames)
        unr == unregisterAll(reg.s, unreg, o, <<>>)
    IN  [s |-> unr.s, regErr |-> reg.errs, unregErr |-> unr.errs]

-----------------------------------------------------------------------------
(* Metric handlers: Handle of the eight variants *)

Methods(kind) ==
    IF kind \in {"CounterHandler", "CounterVecHandler"} THEN {"inc", "add"}
    ELSE IF kind \in {"GaugeHandler", "GaugeVecHandler"}
    THEN {"set", "inc", "dec", "add", "sub", "set_to_current_time"}
    ELSE {"observe"}

\* handler.Handle(metric): "" when the update is applied to the collector
handlerHandle(handler, metric) ==
    IF metric.Method \notin Methods(handler.kind) THEN "method"
    ELSE IF Len(metric.LabelValues) # handler.coll.labels THEN "labels"
    ELSE ""

\* doHandle that applies the update and drops the error
doHandleMut(h, metric) ==
    [err |-> "",
     coll |-> IF metric.Name \in DOMAIN h THEN h[metric.Name].coll.id ELSE 0]

\* doHandle(metric): the error, and the collector the update is applied to
doHandle(h, metric) ==
    IF metric.Name \notin DOMAIN h
    THEN [err |-> "does not exist", coll |-> 0]
    ELSE [err |-> handlerHandle(h[metric.Name], metric),
          coll |-> h[metric.Name].coll.id]

-----------------------------------------------------------------------------
(* Inputs *)

La == <<"l","a">>
Lb == <<"l","b">>
M1 == <<"m","1">>
M2 == <<"m","2">>
M3 == <<"m","3">>

MkSpec(type, name, labels) ==
    [Type |-> type, Name |-> name, Help |-> <<"h">>, Labels |-> labels,
     Buckets |-> <<>>, Objectives |-> <<>>]

\* The spec objects a caller holds: S1, S2, S3, S3' (S3 with a label),
\* S3 with an invalid label list, and a spec with an invalid name
SpecObjects ==
    <<MkSpec(CounterT, M1, <<>>),
      MkSpec(GaugeT, M2, <<La, Lb>>),
      MkSpec(CounterT, M3, <<>>),
      MkSpec(CounterT, M3, <<La>>),
      MkSpec(CounterT, M3, <<<<"L">>, La>>),
      MkSpec(CounterT, <<"M","4">>, <<>>)>>

Ptrs == DOMAIN SpecObjects

\* the labels the test writes into a spec object it already registered
BadLabels == <<<<"N","o","w">>, <<"f","o","r">>>>

SpecLists == UNION {[1..n -> Ptrs] : n \in 0..MaxSpecs}

MkMetric(name, method, lv) ==
    [Name |-> name, LabelValues |-> lv, Method |-> method, Value |-> 1]

Metrics ==
    {MkMetric(M1, "inc", <<>>),
     MkMetric(M1, "observe", <<>>),
     MkMetric(M2, "set", <<"x", "y">>),
     MkMetric(M2, "set", <<"x">>),
     MkMetric(M3, "inc", <<>>),
     MkMetric(M3, "inc", <<"x">>),
     MkMetric(<<"z","z">>, "inc", <<>>)}

\* the heap of spec objects: the object `mutated` carries BadLabels
Heap(m) ==
    [p \in Ptrs |-> IF p = m THEN [SpecObjects[p] EXCEPT !.Labels = BadLabels]
                    ELSE SpecObjects[p]]

heap == Heap(mutated)

RECURSIVE SubsetsUpTo(_, _)
SubsetsUpTo(S, k) ==
    IF k = 0 THEN {{}}
    ELSE LET T == SubsetsUpTo(S, k - 1)
         IN  T \cup {t \cup {x} : t \in T, x \in S}

\* what the surface may refuse during one Reload(specs): to register one of
\* the names of specs, or to unregister one of the collectors it holds
Oracles(specs) ==
    LET events == ({"R"} \X {heap[specs[i]].Name : i \in 1..Len(specs)})
                  \cup ({"U"} \X {c.id : c \in registered})
    IN  {[blocked |-> {e[2] : e \in {x \in E : x[1] = "R"}},
          sticky |-> {e[2] : e \in {x \in E : x[1] = "U"}}]
         : E \in SubsetsUpTo(events, MaxRefuse)}

-----------------------------------------------------------------------------
(* The Registry driven through its interface: a caller makes one call at a  *)
(* time, looks at what it did (lastCall, lastRes) and goes on.              *)

LiveIds(h) == {h[n].coll.id : n \in DOMAIN h}

regState == [handlers |-> handlers, registered |-> registered,
             used |-> LiveIds(handlers) \cup {c.id : c \in registered}]

before == [handlers |-> handlers, registered |-> registered,
           collVal |-> collVal, mutated |-> mutated]

Idle == [op |-> "idle"]

RECURSIVE Sum(_)
Sum(f) ==
    IF DOMAIN f = {} THEN 0
    ELSE LET x == CHOOSE y \in DOMAIN f : TRUE
         IN  f[x] + Sum([y \in DOMAIN f \ {x} |-> f[y]])

Updates(vals) == Sum(vals)

\* the values of the collectors the map still reaches
KeepVals(h) ==
    [id \in LiveIds(h) |-> IF id \in DOMAIN collVal THEN collVal[id] ELSE 0]

NewRegistry ==
    /\ mutated = 0
    /\ handlers = <<>>
    /\ registered = {}
    /\ collVal = <<>>
    /\ mu = "free"
    /\ lastCall = Idle
    /\ lastRes = Idle

Workers == 1..NumWorkers

\* main up to the start of its goroutines
PipeInit ==
    /\ ctlPc = "load"
    /\ ctlSpecs = <<>>
    /\ procPc = "idle"
    /\ stopped = FALSE
    /\ cur = <<>>
    /\ sigu = 0
    /\ usr1Pc = "wait"
    /\ readerPc = "accept"
    /\ readerBuf = <<>>
    /\ conns = 0
    /\ decPc = [d \in Workers |-> "recv"]
    /\ decData = [d \in Workers |-> <<>>]
    /\ decIdx = [d \in Workers |-> 0]
    /\ handled = <<>>
    /\ metricsTotal = [ok |-> 0, error |-> 0]
    /\ decoded = <<>>
    /\ faults = [accept |-> 0, decode |-> 0]

Callers == {"A", "B"}

\* no goroutine is inside a Registry method
CallInit ==
    /\ callPc = [g \in Callers |-> "idle"]
    /\ callOp = [g \in Callers |-> ""]
    /\ callLoc = [g \in Callers |-> <<>>]

\* main after net.Listen, with its termination goroutine at <-sigc
TermInit ==
    /\ ln = "open"
    /\ termPc = "wait"
    /\ seenClosed = FALSE

RegInit == NewRegistry /\ PipeInit /\ CallInit /\ TermInit /\ track = TRUE

\* registry.Reload(specs)
CallReload ==
    /\ lastCall = Idle
    /\ mu = "free"
    /\ \E specs \in SpecLists : \E o \in Oracles(specs) :
        \E r \in {Reload(regState, specs, heap, o)} :
            /\ handlers' = r.s.handlers
            /\ registered' = r.s.registered
            /\ collVal' = KeepVals(r.s.handlers)
            /\ lastCall' = [op |-> "Reload", specs |-> specs]
            /\ lastRes' = [before |-> before, regErr |-> r.regErr,
                           unregErr |-> r.unregErr]
            /\ UNCHANGED <<mutated, mu, pipeVars, callVars, termVars>>

\* registry.Handle(&metric)
CallHandle ==
    /\ lastCall = Idle
    /\ mu = "free"
    /\ \E metric \in Metrics : \E r \in {doHandle(handlers, metric)} :
            /\ r.err = "" => Updates(collVal) < MaxUpdates
            /\ collVal' = IF r.err = ""
                          THEN [collVal EXCEPT ![r.coll] = @ + 1]
                          ELSE collVal
            /\ lastCall' = [op |-> "Handle", metric |-> metric]
            /\ lastRes' = [before |-> before, err |-> r.err]
            /\ UNCHANGED <<mutated, handlers, registered, mu, pipeVars, callVars, termVars>>

\* the caller modifies a spec object it has registered: mySpec.Labels = ...
MutateSpec ==
    \E p \in {handlers[n].spec : n \in DOMAIN handlers} :
        /\ lastCall = Idle
        /\ mutated = 0
        /\ mutated' = p
        /\ UNCHANGED <<handlers, registered, collVal, mu, lastCall, lastRes,
                       pipeVars, callVars, termVars>>

\* collector identities are opaque: renumber them 1, 2, ... in their order
Rank(ids, id) == Cardinality({j \in ids : j <= id})

\* the call has returned and the caller lets go of its result
Return ==
    LET ids == LiveIds(handlers) \cup {c.id : c \in registered}
        ren(c) == [c EXCEPT !.id = Rank(ids, c.id)]
    IN  /\ lastCall # Idle
        /\ handlers' = [n \in DOMAIN handlers |->
                           [handlers[n] EXCEPT !.coll = ren(handlers[n].coll)]]
        /\ registered' = {ren(c) : c \in registered}
        /\ collVal' = [i \in {Rank(ids, id) : id \in DOMAIN collVal} |->
                          collVal[CHOOSE id \in DOMAIN collVal : Rank(ids, id) = i]]
        /\ lastCall' = Idle
        /\ lastRes' = Idle
        /\ UNCHANGED <<mutated, mu, pipeVars, callVars, termVars>>

RegNext == CallReload \/ CallHandle \/ MutateSpec \/ Return

SpecReg == RegInit /\ [][RegNext]_vars

-----------------------------------------------------------------------------
(* register called with one spec on a new Registry, for every name and      *)
(* label list of a bounded set                                              *)

\* the characters of the names: a lowercase letter, a digit, the underscore
\* and an uppercase letter
NameChars == {"a", "1", "_", "A"}

NameInputs == UNION {[1..n -> NameChars] : n \in 0..MaxNameLen}

\* the labels of the label lists: two identifiers, a one-letter identifier
\* and a label that begins with an uppercase letter
LabelPool == {La, Lb, <<"a">>, <<"L","c">>}

LabelInputs == UNION {[1..n -> LabelPool] : n \in 0..MaxLabels}

SpecInputs ==
    {MkSpec(CounterT, name, labels) :
         name \in NameInputs, labels \in LabelInputs}

\* a new Registry and the spec its caller is about to register
RegisterInit ==
    /\ \E spec \in SpecInputs : lastCall = [op |-> "input", spec |-> spec]
    /\ mutated = 0
    /\ handlers = <<>>
    /\ registered = {}
    /\ collVal = <<>>
    /\ mu = "free"
    /\ lastRes = Idle
    /\ PipeInit /\ CallInit /\ TermInit /\ track = TRUE

\* r.register(spec), the surface refusing nothing
CallRegister ==
    /\ lastCall.op = "input"
    /\ \E r \in {register(regState, 1, [p \in {1} |-> lastCall.spec],
                          [blocked |-> {}, sticky |-> {}])} :
        /\ handlers' = r.s.handlers
        /\ registered' = r.s.registered
        /\ collVal' = KeepVals(r.s.handlers)
        /\ lastRes' = [err |-> r.err]
    /\ lastCall' = [lastCall EXCEPT !.op = "register"]
    /\ UNCHANGED <<mutated, mu, pipeVars, callVars, termVars>>

SpecRegister == RegisterInit /\ [][CallRegister]_vars

-----------------------------------------------------------------------------
(* The daemon: main's goroutines around one Registry *)

\* the contents the spec file may have when LoadSpecs reads it
SpecFiles == {<<>>, <<1, 3>>, <<2, 4>>}

\* the payloads a connection may carry: a list of JSON objects, each with
\* the keys it has; an invalid one fails to decode after the objects listed
Payloads ==
    {[valid |-> TRUE,
      objects |-> <<[name |-> M2, method |-> "set",
                     label_values |-> <<"x">>, value |-> 39],
                    [name |-> M1, method |-> "inc"]>>],
     [valid |-> TRUE, objects |-> <<[name |-> <<"z","z">>, method |-> "inc"]>>],
     [valid |-> TRUE, objects |-> <<>>],
     [valid |-> FALSE, objects |-> <<[name |-> M1, method |-> "inc"]>>]}

\* the value of a key of a JSON object, or the zero value of the field
Field(obj, key, zero) == IF key \in DOMAIN obj THEN obj[key] ELSE zero

\* a decoder that gives an omitted value the value 1
DecodeMetricMut(obj) ==
    [Name |-> Field(obj, "name", <<>>),
     LabelValues |-> Field(obj, "label_values", <<>>),
     Method |-> Field(obj, "method", ""),
     Value |-> Field(obj, "value", 1)]

\* the Metric json.Unmarshal makes of one JSON object
DecodeMetric(obj) ==
    [Name |-> Field(obj, "name", <<>>),
     LabelValues |-> Field(obj, "label_values", <<>>),
     Method |-> Field(obj, "method", ""),
     Value |-> Field(obj, "value", 0)]

\* a decoder that hands over the updates it read before the malformed part
UnmarshalMut(data) ==
    [err |-> FALSE,
     metrics |-> [i \in 1..Len(data.objects) |-> DecodeMetric(data.objects[i])]]

\* json.Unmarshal(data, &metrics)
Unmarshal(data) ==
    [err |-> ~data.valid,
     metrics |-> IF data.valid
                 THEN [i \in 1..Len(data.objects) |->
                          DecodeMetric(data.objects[i])]
                 ELSE <<>>]

\* CountMetric that does not look at the status
CountMetricMut(status) ==
    IF track THEN [metricsTotal EXCEPT !.error = @ + 1] ELSE metricsTotal

\* CountMetric(status)
CountMetric(status) ==
    IF track THEN [metricsTotal EXCEPT ![status] = @ + 1] ELSE metricsTotal

Bump(f, k) == IF k \in DOMAIN f THEN [f EXCEPT ![k] = @ + 1] ELSE Put(f, k, 1)

\* IsEmpty()
IsEmpty(h) == Cardinality(DOMAIN h) = 0

\* the kernel delivers SIGUSR1: signal.Notify sends without blocking, and
\* drops the signal when sigu is full
Signal ==
    /\ sigu' = 1
    /\ UNCHANGED <<regVars, ctlPc, ctlSpecs, procPc, stopped, cur, usr1Pc, readerPc,
                   readerBuf, conns, decPc, decData, decIdx, handled,
                   metricsTotal, decoded, faults,
                   track, callVars, termVars>>

\* USR1 goroutine: <-sigu
Usr1Recv ==
    /\ usr1Pc = "wait"
    /\ sigu = 1
    /\ sigu' = 0
    /\ usr1Pc' = "send"
    /\ UNCHANGED <<regVars, ctlPc, ctlSpecs, procPc, stopped, cur, readerPc, readerBuf,
                   conns, decPc, decData, decIdx, handled, metricsTotal,
                   decoded, faults,
                   track, callVars, termVars>>

\* a control loop that goes on to Reload with the empty result of a failed
\* load before it ends
CtlLoadMut ==
    /\ ctlPc = "load"
    /\ mu = "free"
    /\ \/ /\ \E f \in SpecFiles : ctlSpecs' = f /\ ctlPc' = "reload"
          /\ UNCHANGED regVars
       \/ /\ ctlSpecs' = <<>>
          /\ ctlPc' = "failed"
          /\ \E r \in {Reload(regState, <<>>, heap,
                                [blocked |-> {}, sticky |-> {}])} :
                 /\ handlers' = r.s.handlers
                 /\ registered' = r.s.registered
                 /\ collVal' = KeepVals(r.s.handlers)
          /\ UNCHANGED <<mutated, mu, lastCall, lastRes>>
    /\ UNCHANGED <<procPc, stopped, cur, sigu, usr1Pc, readerPc, readerBuf,
                   conns, decPc, decData, decIdx, handled, metricsTotal,
                   decoded, faults,
                   track, callVars, termVars>>

\* control loop: specs, err := LoadSpecs(*metricsFlag); on an error, break
CtlLoad ==
    /\ ctlPc = "load"
    /\ \/ \E f \in SpecFiles : ctlSpecs' = f /\ ctlPc' = "reload"
       \/ ctlSpecs' = <<>> /\ ctlPc' = "failed"
    /\ UNCHANGED <<regVars, procPc, stopped, cur, sigu, usr1Pc, readerPc, readerBuf,
                   conns, decPc, decData, decIdx, handled, metricsTotal,
                   decoded, faults,
                   track, callVars, termVars>>

\* control loop: registry.Reload(specs)
CtlReload ==
    /\ ctlPc = "reload"
    /\ mu = "free"
    /\ \E o \in Oracles(ctlSpecs) :
        \E r \in {Reload(regState, ctlSpecs, heap, o)} :
            /\ handlers' = r.s.handlers
            /\ registered' = r.s.registered
            /\ collVal' = KeepVals(r.s.handlers)
    /\ ctlPc' = "isempty"
    /\ UNCHANGED <<mutated, mu, lastCall, lastRes, ctlSpecs, procPc, stopped, cur,
                   sigu, usr1Pc, readerPc, readerBuf, conns, decPc, decData,
                   decIdx, handled, metricsTotal, decoded, faults,
                   track, callVars, termVars>>

\* a control loop that starts Process on a registry without handlers
CtlIsEmptyMut ==
    /\ ctlPc = "isempty"
    /\ ctlPc' = "process"
    /\ UNCHANGED <<regVars, ctlSpecs, procPc, stopped, cur, sigu, usr1Pc, readerPc,
                   readerBuf, conns, decPc, decData, decIdx, handled,
                   metricsTotal, decoded, faults,
                   track, callVars, termVars>>

\* control loop: if registry.IsEmpty() { break }
CtlIsEmpty ==
    /\ ctlPc = "isempty"
    /\ ctlPc' = IF IsEmpty(handlers) THEN "exited" ELSE "process"
    /\ UNCHANGED <<regVars, ctlSpecs, procPc, stopped, cur, sigu, usr1Pc, readerPc,
                   readerBuf, conns, decPc, decData, decIdx, handled,
                   metricsTotal, decoded, faults,
                   track, callVars, termVars>>

\* Process started with "go": the control loop does not wait for it
ProcEnterMut ==
    /\ ctlPc = "process"
    /\ procPc = "idle"
    /\ mu = "free"
    /\ mu' = "Process"
    /\ procPc' = "select"
    /\ stopped' = FALSE
    /\ ctlPc' = "load"
    /\ UNCHANGED <<mutated, handlers, registered, collVal, lastCall, lastRes,
                   ctlSpecs, cur, sigu, usr1Pc, readerPc, readerBuf,
                   conns, decPc, decData, decIdx, handled, metricsTotal,
                   decoded, faults,
                   track, callVars, termVars>>

\* Process: r.mu.Lock()
ProcEnter ==
    /\ ctlPc = "process"
    /\ procPc = "idle"
    /\ mu = "free"
    /\ mu' = "Process"
    /\ procPc' = "select"
    /\ stopped' = FALSE
    /\ UNCHANGED <<mutated, handlers, registered, collVal, lastCall, lastRes,
                   ctlPc, ctlSpecs, cur, sigu, usr1Pc, readerPc, readerBuf,
                   conns, decPc, decData, decIdx, handled, metricsTotal,
                   decoded, faults,
                   track, callVars, termVars>>

\* DataParser: i++ after metricCh <- metrics[i]
NextIdxMut(i) == i + 2
NextIdx(i) == i + 1

\* Process: case metric := <-metricCh, with DataParser d at
\* metricCh <- metrics[i]
ProcRecv(d) ==
    /\ procPc = "select"
    /\ decPc[d] = "send"
    /\ cur' = [id |-> <<decData[d].id, decIdx[d]>>,
               metric |-> decData[d].metrics[decIdx[d]]]
    /\ procPc' = "handle"
    /\ UNCHANGED stopped
    /\ IF NextIdx(decIdx[d]) <= Len(decData[d].metrics)
       THEN /\ decIdx' = [decIdx EXCEPT ![d] = NextIdx(@)]
            /\ UNCHANGED <<decPc, decData>>
       ELSE /\ decIdx' = [decIdx EXCEPT ![d] = 0]
            /\ decPc' = [decPc EXCEPT ![d] = "recv"]
            /\ decData' = [decData EXCEPT ![d] = <<>>]
    /\ UNCHANGED <<regVars, ctlPc, ctlSpecs, sigu, usr1Pc, readerPc,
                   readerBuf, conns, handled, metricsTotal, decoded, faults,
                   track, callVars, termVars>>

\* Process that returns when doHandle fails
ProcHandleMut ==
    /\ procPc = "handle"
    /\ \E r \in {doHandle(handlers, cur.metric)} :
        /\ collVal' = IF r.err = "" /\ track
                      THEN [collVal EXCEPT ![r.coll] = @ + 1]
                      ELSE collVal
        /\ metricsTotal' = CountMetric(IF r.err = "" THEN "ok" ELSE "error")
        /\ IF r.err = ""
           THEN procPc' = "select" /\ UNCHANGED <<mu, ctlPc>>
           ELSE procPc' = "idle" /\ mu' = "free" /\ ctlPc' = "load"
    /\ handled' = IF track THEN Bump(handled, cur.id) ELSE handled
    /\ cur' = <<>>
    /\ UNCHANGED stopped
    /\ UNCHANGED <<mutated, handlers, registered, lastCall, lastRes,
                   ctlSpecs, sigu, usr1Pc, readerPc, readerBuf, conns,
                   decPc, decData, decIdx, decoded, faults,
                   track, callVars, termVars>>

\* Process: err := r.doHandle(&metric), then CountMetric
ProcHandle ==
    /\ procPc = "handle"
    /\ \E r \in {doHandle(handlers, cur.metric)} :
        /\ collVal' = IF r.err = "" /\ track
                      THEN [collVal EXCEPT ![r.coll] = @ + 1]
                      ELSE collVal
        /\ metricsTotal' = CountMetric(IF r.err = "" THEN "ok" ELSE "error")
    /\ handled' = IF track THEN Bump(handled, cur.id) ELSE handled
    /\ cur' = <<>>
    /\ procPc' = "select"
    /\ UNCHANGED stopped
    /\ UNCHANGED <<mutated, handlers, registered, mu, lastCall, lastRes,
                   ctlPc, ctlSpecs, sigu, usr1Pc, readerPc, readerBuf, conns,
                   decPc, decData, decIdx, decoded, faults,
                   track, callVars, termVars>>

\* Process that takes the stop signal and goes on with its loop
ProcStopMut ==
    /\ procPc = "select"
    /\ usr1Pc = "send"
    /\ usr1Pc' = "wait"
    /\ UNCHANGED <<regVars, ctlPc, ctlSpecs, procPc, stopped, cur, sigu,
                   readerPc, readerBuf, conns, decPc, decData, decIdx,
                   handled, metricsTotal, decoded, faults,
                   track, callVars, termVars>>

\* Process: case <-doneCh: return (and the deferred Unlock), with the USR1
\* goroutine at doneCh <- true; the control loop goes round
ProcStop ==
    /\ procPc = "select"
    /\ usr1Pc = "send"
    /\ usr1Pc' = "wait"
    /\ procPc' = "idle"
    /\ stopped' = TRUE
    /\ mu' = "free"
    /\ ctlPc' = "load"
    /\ UNCHANGED <<mutated, handlers, registered, collVal, lastCall, lastRes,
                   ctlSpecs, cur, sigu, readerPc, readerBuf, conns, decPc,
                   decData, decIdx, handled, metricsTotal, decoded, faults,
                   track, callVars, termVars>>

\* DataReader: c, err := ln.Accept(); on an error count it and go on,
\* otherwise io.Copy(&buf, c), whose error is not looked at: after a read
\* error buf holds what was read before it.  Accept on a closed listener
\* returns an error
Accept(limit) ==
    /\ readerPc = "accept"
    /\ track => conns < limit
    /\ conns' = IF track THEN conns + 1 ELSE conns
    /\ \/ /\ metricsTotal' = CountMetric("error")
          /\ faults' = IF track THEN [faults EXCEPT !.accept = @ + 1]
                       ELSE faults
          /\ seenClosed' = (seenClosed \/ ln = "closed")
          /\ UNCHANGED <<readerPc, readerBuf>>
       \/ /\ ln = "open"
          /\ \E data \in Payloads : \E readErr \in BOOLEAN :
                 readerBuf' = [id |-> conns', data |-> data,
                               readErr |-> readErr]
          /\ readerPc' = "send"
          /\ UNCHANGED <<metricsTotal, faults, seenClosed>>
    /\ UNCHANGED <<regVars, ctlPc, ctlSpecs, procPc, stopped, cur, sigu, usr1Pc,
                   decPc, decData, decIdx, handled, decoded, track>>
    /\ UNCHANGED <<callVars, ln, termPc>>

\* the DataReader of the daemon, followed through MaxConn calls of Accept
ReaderAccept == Accept(MaxConn)

\* a dataCh with room: the payload goes to a DataParser whether or not it
\* has sent every update of the payload it holds
HandoffMut(d) ==
    /\ readerPc = "send"
    /\ readerPc' = "accept"
    /\ readerBuf' = <<>>
    /\ \E u \in {Unmarshal(readerBuf.data)} :
        IF u.err
        THEN /\ metricsTotal' = CountMetric("error")
             /\ faults' = IF track THEN [faults EXCEPT !.decode = @ + 1]
                          ELSE faults
             /\ UNCHANGED <<decPc, decData, decIdx, decoded>>
        ELSE /\ decoded' = IF track
                           THEN Put(decoded, readerBuf.id, Len(u.metrics))
                           ELSE decoded
             /\ UNCHANGED <<metricsTotal, faults>>
             /\ IF Len(u.metrics) = 0
                THEN UNCHANGED <<decPc, decData, decIdx>>
                ELSE /\ decPc' = [decPc EXCEPT ![d] = "send"]
                     /\ decData' = [decData EXCEPT
                                       ![d] = [id |-> readerBuf.id,
                                               metrics |-> u.metrics]]
                     /\ decIdx' = [decIdx EXCEPT ![d] = 1]
    /\ UNCHANGED <<regVars, ctlPc, ctlSpecs, procPc, stopped, cur, sigu, usr1Pc,
                   conns, handled, track, callVars, termVars>>

\* DataReader at dataCh <- buf.Bytes() with DataParser d at data := <-dataCh;
\* the reader closes the connection, the parser decodes the payload
Handoff(d) ==
    /\ readerPc = "send"
    /\ decPc[d] = "recv"
    /\ readerPc' = "accept"
    /\ readerBuf' = <<>>
    /\ \E u \in {Unmarshal(readerBuf.data)} :
        IF u.err
        THEN /\ metricsTotal' = CountMetric("error")
             /\ faults' = IF track THEN [faults EXCEPT !.decode = @ + 1]
                          ELSE faults
             /\ UNCHANGED <<decPc, decData, decIdx, decoded>>
        ELSE /\ decoded' = IF track
                           THEN Put(decoded, readerBuf.id, Len(u.metrics))
                           ELSE decoded
             /\ UNCHANGED <<metricsTotal, faults>>
             /\ IF Len(u.metrics) = 0
                THEN UNCHANGED <<decPc, decData, decIdx>>
                ELSE /\ decPc' = [decPc EXCEPT ![d] = "send"]
                     /\ decData' = [decData EXCEPT
                                       ![d] = [id |-> readerBuf.id,
                                               metrics |-> u.metrics]]
                     /\ decIdx' = [decIdx EXCEPT ![d] = 1]
    /\ UNCHANGED <<regVars, ctlPc, ctlSpecs, procPc, stopped, cur, sigu, usr1Pc,
                   conns, handled, track, callVars, termVars>>

Init == NewRegistry /\ PipeInit /\ CallInit /\ TermInit /\ track = TRUE

Next ==
    \/ Signal
    \/ Usr1Recv
    \/ CtlLoad
    \/ CtlReload
    \/ CtlIsEmpty
    \/ ProcEnter
    \/ \E d \in Workers : ProcRecv(d)
    \/ ProcHandle
    \/ ProcStop
    \/ ReaderAccept
    \/ \E d \in Workers : Handoff(d)

Spec == Init /\ [][Next]_vars

\* The goroutines keep running (weak fairness of their steps), and a select
\* with several ready cases picks one at random, so a case that is ready
\* again and again is taken (strong fairness of the two cases of Process).
\* Connections and signals come from outside: nothing obliges them.
\* the control loop's step at registry.Reload(specs): Reload always
\* returns, so the step can be taken whenever the lock is free
CtlReloadStep == ctlPc = "reload" /\ mu = "free" /\ ctlPc' = "isempty"

Fairness ==
    /\ WF_vars(Usr1Recv)
    /\ WF_vars(CtlLoad)
    /\ WF_ctlPc(CtlReloadStep)
    /\ WF_vars(CtlIsEmpty)
    /\ WF_vars(ProcEnter)
    /\ WF_vars(ProcHandle)
    /\ SF_vars(ProcStop)
    /\ \A d \in Workers : SF_vars(ProcRecv(d))
    /\ \A d \in Workers : WF_vars(Handoff(d))

\* the daemon under an endless supply of connections: the counters and the
\* update identities are not kept
LiveInit == NewRegistry /\ PipeInit /\ CallInit /\ TermInit /\ track = FALSE

LiveSpec == LiveInit /\ [][Next]_vars /\ Fairness

-----------------------------------------------------------------------------
(* The daemon while no SIGUSR1 arrives, followed through one more           *)
(* connection                                                               *)

OrderNext ==
    \/ CtlLoad
    \/ CtlReload
    \/ CtlIsEmpty
    \/ ProcEnter
    \/ \E d \in Workers : ProcRecv(d)
    \/ ProcHandle
    \/ Accept(MaxConn + 1)
    \/ \E d \in Workers : Handoff(d)

SpecOrder == Init /\ [][OrderNext]_vars

-----------------------------------------------------------------------------
(* Termination: the goroutine of main that waits for SIGINT, SIGTERM or     *)
(* SIGQUIT                                                                  *)

\* <-sigc: a termination signal has arrived
TermRecv ==
    /\ termPc = "wait"
    /\ termPc' = "close"
    /\ UNCHANGED <<regVars, pipeVars, callVars, ln, seenClosed>>

\* ln.Close()
TermClose ==
    /\ termPc = "close"
    /\ ln' = "closed"
    /\ termPc' = "exit"
    /\ UNCHANGED <<regVars, pipeVars, callVars, seenClosed>>

\* os.Exit(0): the process and all its goroutines end
TermExit ==
    /\ termPc = "exit"
    /\ termPc' = "gone"
    /\ UNCHANGED <<regVars, pipeVars, callVars, ln, seenClosed>>

\* the process has not ended
Alive == termPc # "gone"

\* the goroutines of the daemon run until the process has ended
TermNext ==
    \/ Alive /\ Signal
    \/ Alive /\ Usr1Recv
    \/ Alive /\ CtlLoad
    \/ Alive /\ CtlReload
    \/ Alive /\ CtlIsEmpty
    \/ Alive /\ ProcEnter
    \/ Alive /\ \E d \in Workers : ProcRecv(d)
    \/ Alive /\ ProcHandle
    \/ Alive /\ ProcStop
    \/ Alive /\ ReaderAccept
    \/ Alive /\ \E d \in Workers : Handoff(d)
    \/ TermRecv
    \/ TermClose
    \/ TermExit

SpecTerm == Init /\ [][TermNext]_vars

-----------------------------------------------------------------------------
(* The Registry called by several goroutines at once: every method of the   *)
(* interface, step by step between its Lock and its Unlock                  *)

\* the exported methods of Registry
Ops == {"Names", "Reload", "IsEmpty", "Handle", "Process"}

\* a goroutine calls a method: IsEmpty goes straight to its body, the others
\* begin with r.mu.Lock()
CallBegin(g) ==
    /\ callPc[g] = "idle"
    /\ \E op \in Ops :
        /\ callOp' = [callOp EXCEPT ![g] = op]
        /\ callPc' = [callPc EXCEPT
                         ![g] = IF op = "IsEmpty" THEN "isempty" ELSE "lock"]
    /\ UNCHANGED <<regVars, callLoc, pipeVars, termVars>>

\* the first statement after the Lock of each method
Body(op) ==
    IF op \in {"Names", "Reload"} THEN "names"
    ELSE IF op = "Handle" THEN "dohandle"
    ELSE "select"

\* a Lock that does not wait for the mutex
CallLockMut(g) ==
    /\ callPc[g] = "lock"
    /\ mu' = g
    /\ callPc' = [callPc EXCEPT ![g] = Body(callOp[g])]
    /\ UNCHANGED <<mutated, handlers, registered, collVal, lastCall, lastRes,
                   callOp, callLoc, pipeVars, termVars>>

\* r.mu.Lock()
CallLock(g) ==
    /\ callPc[g] = "lock"
    /\ mu = "free"
    /\ mu' = g
    /\ callPc' = [callPc EXCEPT ![g] = Body(callOp[g])]
    /\ UNCHANGED <<mutated, handlers, registered, collVal, lastCall, lastRes,
                   callOp, callLoc, pipeVars, termVars>>

\* the deferred r.mu.Unlock(), and the return
CallUnlock(g) ==
    /\ callPc[g] = "unlock"
    /\ mu' = "free"
    /\ callPc' = [callPc EXCEPT ![g] = "idle"]
    /\ callOp' = [callOp EXCEPT ![g] = ""]
    /\ callLoc' = [callLoc EXCEPT ![g] = <<>>]
    /\ UNCHANGED <<mutated, handlers, registered, collVal, lastCall, lastRes,
                   pipeVars, termVars>>

\* IsEmpty: return len(r.handlers) == 0
IsEmptyRead(g) ==
    /\ callPc[g] = "isempty"
    /\ callPc' = [callPc EXCEPT ![g] = "idle"]
    /\ callOp' = [callOp EXCEPT ![g] = ""]
    /\ UNCHANGED <<regVars, callLoc, pipeVars, termVars>>

\* Names: return r.doNames()
NamesRead(g) ==
    /\ callOp[g] = "Names"
    /\ callPc[g] = "names"
    /\ callLoc' = [callLoc EXCEPT ![g] = [result |-> doNames(handlers)]]
    /\ callPc' = [callPc EXCEPT ![g] = "unlock"]
    /\ UNCHANGED <<regVars, callOp, pipeVars, termVars>>

\* Handle: return r.doHandle(metric)
HandleDo(g) ==
    /\ callOp[g] = "Handle"
    /\ callPc[g] = "dohandle"
    /\ \E metric \in Metrics : \E r \in {doHandle(handlers, metric)} :
        /\ (track /\ r.err = "") => Updates(collVal) < MaxUpdates
        /\ collVal' = IF r.err = "" /\ track
                      THEN [collVal EXCEPT ![r.coll] = @ + 1]
                      ELSE collVal
        /\ callLoc' = [callLoc EXCEPT ![g] = [err |-> r.err]]
    /\ callPc' = [callPc EXCEPT ![g] = "unlock"]
    /\ UNCHANGED <<mutated, handlers, registered, mu, lastCall, lastRes,
                   callOp, pipeVars, termVars>>

\* Reload: names := r.doNames(), for the spec list the caller passed
ReloadNames(g) ==
    /\ callOp[g] = "Reload"
    /\ callPc[g] = "names"
    /\ \E specs \in SpecFiles : \E o \in Oracles(specs) :
        callLoc' = [callLoc EXCEPT
                       ![g] = [specs |-> specs, o |-> o,
                               names |-> doNames(handlers), i |-> 1,
                               unreg |-> {}]]
    /\ callPc' = [callPc EXCEPT ![g] = "register"]
    /\ UNCHANGED <<regVars, callOp, pipeVars, termVars>>

\* Reload: one round of the loop over specs, r.register(spec)
ReloadRegister(g) ==
    /\ callPc[g] = "register"
    /\ callLoc[g].i <= Len(callLoc[g].specs)
    /\ \E r \in {register(regState, callLoc[g].specs[callLoc[g].i], heap,
                          callLoc[g].o)} :
        /\ handlers' = r.s.handlers
        /\ registered' = r.s.registered
        /\ collVal' = KeepVals(r.s.handlers)
    /\ callLoc' = [callLoc EXCEPT ![g].i = @ + 1]
    /\ UNCHANGED <<mutated, mu, lastCall, lastRes, callPc, callOp, pipeVars,
                   termVars>>

\* Reload: unreg := sliceSubStr(names, newNames), after the loop over specs
ReloadDiff(g) ==
    /\ callPc[g] = "register"
    /\ callLoc[g].i > Len(callLoc[g].specs)
    /\ callLoc' = [callLoc EXCEPT
                      ![g].unreg =
                          sliceSubStr(callLoc[g].names,
                                      {heap[callLoc[g].specs[i]].Name :
                                           i \in 1..Len(callLoc[g].specs)})]
    /\ callPc' = [callPc EXCEPT ![g] = "unregister"]
    /\ UNCHANGED <<regVars, callOp, pipeVars, termVars>>

\* Reload: one round of the loop over unreg, r.unregister(name)
ReloadUnregister(g) ==
    /\ callPc[g] = "unregister"
    /\ \E name \in callLoc[g].unreg :
        /\ \E r \in {unregister(regState, name, callLoc[g].o)} :
            /\ handlers' = r.s.handlers
            /\ registered' = r.s.registered
            /\ collVal' = KeepVals(r.s.handlers)
        /\ callLoc' = [callLoc EXCEPT ![g].unreg = @ \ {name}]
    /\ UNCHANGED <<mutated, mu, lastCall, lastRes, callPc, callOp, pipeVars,
                   termVars>>

\* Reload: the end of the loop over unreg
ReloadEnd(g) ==
    /\ callPc[g] = "unregister"
    /\ callLoc[g].unreg = {}
    /\ callPc' = [callPc EXCEPT ![g] = "unlock"]
    /\ UNCHANGED <<regVars, callOp, callLoc, pipeVars, termVars>>

\* Process: case metric := <-metricCh, r.doHandle(&metric) and CountMetric,
\* for an update some sender has on metricCh
ProcessUpdate(g) ==
    /\ callPc[g] = "select"
    /\ \E metric \in Metrics : \E r \in {doHandle(handlers, metric)} :
        /\ (track /\ r.err = "") => Updates(collVal) < MaxUpdates
        /\ collVal' = IF r.err = "" /\ track
                      THEN [collVal EXCEPT ![r.coll] = @ + 1]
                      ELSE collVal
        /\ metricsTotal' = CountMetric(IF r.err = "" THEN "ok" ELSE "error")
    /\ UNCHANGED <<mutated, handlers, registered, mu, lastCall, lastRes,
                   callVars, termVars>>
    /\ UNCHANGED <<ctlPc, ctlSpecs, procPc, stopped, cur, sigu, usr1Pc,
                   readerPc, readerBuf, conns, decPc, decData, decIdx,
                   handled, decoded, faults, track>>

\* Process: case <-doneCh: return, for a stop some sender has on doneCh
ProcessStop(g) ==
    /\ callPc[g] = "select"
    /\ callPc' = [callPc EXCEPT ![g] = "unlock"]
    /\ UNCHANGED <<regVars, callOp, callLoc, pipeVars, termVars>>

CallsNext ==
    \E g \in Callers :
        \/ CallBegin(g)
        \/ CallLock(g)
        \/ CallUnlock(g)
        \/ IsEmptyRead(g)
        \/ NamesRead(g)
        \/ HandleDo(g)
        \/ ReloadNames(g)
        \/ ReloadRegister(g)
        \/ ReloadDiff(g)
        \/ ReloadUnregister(g)
        \/ ReloadEnd(g)
        \/ ProcessUpdate(g)
        \/ ProcessStop(g)

\* collector values and counters are not kept
CallsInit == NewRegistry /\ PipeInit /\ CallInit /\ TermInit /\ track = FALSE

SpecCalls == CallsInit /\ [][CallsNext]_vars

-----------------------------------------------------------------------------
(* Properties of the Registry (SpecReg) *)

IsReload == lastCall.op = "Reload"

\* the name of the i-th spec of the last Reload
SpecName(i) == heap[lastCall.specs[i]].Name

\* the positions of the last Reload's list that carry the name
Occ(name) == {i \in 1..Len(lastCall.specs) : SpecName(i) = name}

Names == doNames(handlers)
NamesBefore == doNames(lastRes.before.handlers)

\* the spec at position i has another fingerprint than the handler that
\* held its name when the Reload began
Changed(i) ==
    /\ SpecName(i) \in NamesBefore
    /\ Hash(heap[lastRes.before.handlers[SpecName(i)].spec])
           # Hash(heap[lastCall.specs[i]])

\* C3: whenever the registry lock is free, every key of the map is the spec
\* name of the handler stored under it, no two handlers share a name or a
\* collector, and the collectors of the handlers in the map are exactly the
\* collectors registered with the exposition surface
C3_MapMatchesSurface ==
    mu = "free" =>
        /\ \A n \in Names : /\ heap[handlers[n].spec].Name = n
                            /\ handlers[n].coll.name = n
        /\ \A n1, n2 \in Names :
               n1 # n2 => handlers[n1].coll.id # handlers[n2].coll.id
        /\ registered = {handlers[n].coll : n \in Names}

\* a Reload during which the surface refused a call, with handlers left
C3_Witness ==
    /\ IsReload
    /\ Names # {}
    /\ \/ \E i \in 1..Len(lastCall.specs) :
              lastRes.regErr[i] \in {"register", "re-register"}
       \/ \E n \in DOMAIN lastRes.unregErr : lastRes.unregErr[n] = "unregister"

\* the names of the last Reload's list whose register attempt succeeded
RegisteredOk == {SpecName(i) : i \in {j \in 1..Len(lastCall.specs) :
                                          lastRes.regErr[j] = ""}}

\* the names whose unregister attempt failed
UnregisterFailed == {n \in DOMAIN lastRes.unregErr : lastRes.unregErr[n] # ""}

\* C4 as stated: after a Reload the names are those of its list whose
\* register attempt succeeded and the earlier names whose unregister failed
C4_AsStated == IsReload => Names = RegisteredOk \cup UnregisterFailed

Last(name) == CHOOSE i \in Occ(name) : \A j \in Occ(name) : j <= i

\* the names whose last register attempt succeeded, or failed only because
\* the surface refused to unregister the collector of the handler in place
KeptByRegister ==
    {n \in {SpecName(i) : i \in 1..Len(lastCall.specs)} :
        lastRes.regErr[Last(n)] \in {"", "re-register"}}

\* C4 amended: after a Reload the names are those of its list whose (last)
\* register attempt succeeded or failed because the surface refused to
\* unregister the existing handler's collector, and the earlier names
\* absent from the list whose unregister attempt failed
C4_NamesAfterReload == IsReload => Names = KeptByRegister \cup UnregisterFailed

\* a second Reload that removed a name, added one and kept one by a refusal
C4_Witness ==
    /\ IsReload
    /\ NamesBefore # {}
    /\ \E i \in 1..Len(lastCall.specs) :
           /\ lastRes.regErr[i] = ""
           /\ SpecName(i) \notin NamesBefore
    /\ NamesBefore \ Names # {}
    /\ \E i \in 1..Len(lastCall.specs) : lastRes.regErr[i] = "re-register"

\* C5 as stated: a spec whose name had a handler with another fingerprint
\* leaves under that name a newly built handler that carries the new spec
C5_Replaced ==
    IsReload =>
        \A i \in 1..Len(lastCall.specs) :
            (Changed(i) /\ Occ(SpecName(i)) = {i} /\ lastRes.regErr[i] = "") =>
                /\ SpecName(i) \in Names
                /\ handlers[SpecName(i)].spec = lastCall.specs[i]
                /\ handlers[SpecName(i)].coll
                       # lastRes.before.handlers[SpecName(i)].coll

\* C6 as stated: a changed spec whose new label list is invalid leaves its
\* name without a handler
C6_Unavailable ==
    IsReload =>
        \A i \in 1..Len(lastCall.specs) :
            (/\ Changed(i)
             /\ Occ(SpecName(i)) = {i}
             /\ Len(heap[lastCall.specs[i]].Labels) > 0
             /\ ~validateLabels(heap[lastCall.specs[i]].Labels)) =>
                SpecName(i) \notin Names

\* the last Reload re-submitted, once, the object the handler of its name
\* holds, after the caller wrote invalid labels into it
Resubmitted(i) ==
    /\ lastCall.specs[i] = mutated
    /\ ~validateLabels(heap[mutated].Labels)
    /\ Occ(SpecName(i)) = {i}
    /\ SpecName(i) \in NamesBefore
    /\ lastRes.before.handlers[SpecName(i)].spec = mutated

\* C7: after a Reload that re-submits a registered spec object modified to
\* carry invalid labels, its name is still registered; when the list is
\* the spec objects of the handlers in place, the names are unchanged
C7_ModifiedSpecKept ==
    IsReload =>
        \A i \in 1..Len(lastCall.specs) :
            Resubmitted(i) =>
                /\ SpecName(i) \in Names
                /\ handlers[SpecName(i)] = lastRes.before.handlers[SpecName(i)]
                /\ ({lastCall.specs[j] : j \in 1..Len(lastCall.specs)}
                        = {lastRes.before.handlers[n].spec : n \in NamesBefore}
                    => /\ Names = NamesBefore
                       /\ Cardinality(Names) = Cardinality(NamesBefore))

\* a Reload of the two spec objects in place, one of them modified
C7_Witness ==
    /\ IsReload
    /\ Len(lastCall.specs) = 2
    /\ {lastCall.specs[j] : j \in 1..Len(lastCall.specs)}
           = {lastRes.before.handlers[n].spec : n \in NamesBefore}
    /\ \E i \in 1..Len(lastCall.specs) : Resubmitted(i)

\* every spec of the last Reload's list that carries the name has the
\* fingerprint of the handler that held the name
Identical(name) ==
    /\ name \in NamesBefore
    /\ Occ(name) # {}
    /\ \A i \in Occ(name) :
           Hash(heap[lastRes.before.handlers[name].spec])
               = Hash(heap[lastCall.specs[i]])

-----------------------------------------------------------------------------
(* Properties of the daemon (Spec, LiveSpec) *)

\* DataParser d holds update i of connection c and has not sent it yet
Held(c, i) ==
    \E d \in Workers :
        /\ decPc[d] = "send"
        /\ decData[d].id = c
        /\ i >= decIdx[d]

\* Process has received update i of connection c and is handling it
InHand(c, i) == procPc = "handle" /\ cur.id = <<c, i>>

Count(c, i) == IF <<c, i>> \in DOMAIN handled THEN handled[<<c, i>>] ELSE 0

\* C1: every update of a payload that decoded is in exactly one place:
\* still held by the DataParser that decoded it, received by Process and in
\* its hands, or dispatched to the registry once; nothing else is dispatched
C1_ExactlyOnce ==
    /\ \A c \in DOMAIN decoded : \A i \in 1..decoded[c] :
           IF Held(c, i) THEN Count(c, i) = 0 /\ ~InHand(c, i)
           ELSE IF InHand(c, i) THEN Count(c, i) = 0
           ELSE Count(c, i) = 1
    /\ \A id \in DOMAIN handled :
           id[1] \in DOMAIN decoded /\ id[2] \in 1..decoded[id[1]]

\* the run-loop is paused for a reload after it dispatched the first update
\* of a payload; the second is held by the blocked DataParser
C1_Witness ==
    /\ stopped
    /\ ctlPc = "reload"
    /\ \E c \in DOMAIN decoded :
           /\ decoded[c] = 2
           /\ Count(c, 1) = 1
           /\ Held(c, 2)

\* C2: the control loop is inside Process, which holds the lock, whenever
\* an activation is in progress - so Reload runs only outside activations -
\* and no step taken during an activation changes the handlers or the
\* collectors registered
C2_ReloadOutsideProcess ==
    /\ [](procPc # "idle" => ctlPc = "process" /\ mu = "Process")
    /\ [][procPc # "idle" =>
             handlers' = handlers /\ registered' = registered]_vars

\* an activation that follows a Reload which changed the handlers (m2 has
\* the third collector built, so it was added to a map that had two) is
\* handling an update while the next reload trigger is pending
C2_Witness ==
    /\ procPc = "handle"
    /\ usr1Pc = "send"
    /\ M2 \in Names
    /\ handlers[M2].coll.id = 3

\* C9 as stated: once the run-loop has been stopped for a reload, Process
\* is entered again
C9_ReloadResumes == stopped ~> (procPc = "select")

\* C10: a stop signal pending on doneCh while Process is active leads to
\* the return of Process
C10_StopReturns == (usr1Pc = "send" /\ procPc # "idle") ~> (procPc = "idle")

\* a stop signal is pending while Process handles an update and both
\* DataParsers wait to send the next
C10_Witness ==
    /\ usr1Pc = "send"
    /\ procPc = "handle"
    /\ \A d \in Workers : decPc[d] = "send"

\* C11 as stated: while a stop signal is pending on doneCh, Process
\* receives no further update from metricCh
C11_NoRecvWhileStopPending ==
    [][usr1Pc = "send" => ~(procPc = "select" /\ procPc' = "handle")]_vars

\* C12: the step on which the load of a reload cycle fails, and every step
\* after it, leaves the handlers, the registered collectors and their
\* values as they were, and Process is not running
C12_FailedLoadKeepsRegistry ==
    /\ [](ctlPc = "failed" => procPc = "idle")
    /\ [][(ctlPc' = "failed" \/ ctlPc = "failed") =>
             /\ handlers' = handlers
             /\ registered' = registered
             /\ collVal' = collVal]_vars

\* the load failed in a reload cycle, with handlers in place and an update
\* counted by a collector
C12_Witness ==
    /\ ctlPc = "failed"
    /\ stopped
    /\ handlers # <<>>
    /\ \E id \in DOMAIN collVal : collVal[id] > 0

\* C13: Process goes from active to returned only on a step that takes the
\* stop signal from doneCh; an update whose dispatch fails adds one to the
\* "error" counter and nothing to "ok", changes no collector and no handler,
\* and leaves Process at its select
C13_ReturnsOnlyOnStop ==
    /\ [][(procPc # "idle" /\ procPc' = "idle") =>
             usr1Pc = "send" /\ usr1Pc' = "wait"]_vars
    /\ [][(/\ procPc = "handle"
           /\ procPc' # "handle"
           /\ doHandle(handlers, cur.metric).err # "") =>
             /\ procPc' = "select"
             /\ metricsTotal' = [metricsTotal EXCEPT !.error = @ + 1]
             /\ collVal' = collVal
             /\ handlers' = handlers
             /\ registered' = registered]_vars

\* in one activation the first update of a payload failed and the second,
\* which followed it, was applied
C13_Witness ==
    /\ procPc = "select"
    /\ ~stopped
    /\ metricsTotal.error = 1
    /\ metricsTotal.ok = 1
    /\ \E c \in DOMAIN decoded :
           decoded[c] = 2 /\ Count(c, 1) = 1 /\ Count(c, 2) = 1

\* the DataReader hands a payload that does not decode to a DataParser
BadHandoff ==
    /\ readerPc = "send"
    /\ readerPc' = "accept"
    /\ ~readerBuf.data.valid

\* C14: the step on which a DataParser takes a payload that fails to decode
\* adds one to the "error" counter and nothing to "ok", puts no update in
\* the hands of any DataParser and leaves every DataParser where it was
\* (the one that took it back at data := <-dataCh); and the updates held by
\* DataParsers or received by Process all come from payloads that decoded
C14_UndecodableDropped ==
    /\ [][BadHandoff =>
             /\ metricsTotal' = [metricsTotal EXCEPT !.error = @ + 1]
             /\ decPc' = decPc
             /\ decData' = decData
             /\ decIdx' = decIdx
             /\ decoded' = decoded
             /\ handled' = handled
             /\ cur' = cur]_vars
    /\ [](\A d \in Workers :
              decPc[d] = "send" => decData[d].id \in DOMAIN decoded)
    /\ [](procPc = "handle" => cur.id[1] \in DOMAIN decoded)

\* a payload with an update before its malformed part was taken by a
\* DataParser: one error counted, nothing decoded, every DataParser waiting
\* for the next payload while Process is at its select
C14_Witness ==
    /\ conns = 1
    /\ readerPc = "accept"
    /\ metricsTotal = [ok |-> 0, error |-> 1]
    /\ decoded = <<>>
    /\ faults.decode = 1
    /\ \A d \in Workers : decPc[d] = "recv"
    /\ procPc = "select"

\* ln.Accept returned an error
AcceptFailed == readerPc = "accept" /\ faults'.accept = faults.accept + 1

\* the DataReader read a connection and the read ended with an error
ReadFailed == readerPc = "accept" /\ readerPc' = "send" /\ readerBuf'.readErr

\* C15 as stated: every accept error and every read error of the DataReader
\* adds one to the "error" counter
C15_ReaderErrorsCounted ==
    [][(AcceptFailed \/ ReadFailed) =>
          metricsTotal' = [metricsTotal EXCEPT !.error = @ + 1]]_vars

\* Process finishes handling the update it received
Handled == procPc = "handle" /\ procPc' # "handle"

\* C16: the step on which Process finishes an update adds one to "ok" when
\* doHandle returned no error and one to "error" otherwise, and nothing to
\* the other counter; the step of an accept error or of a payload that does
\* not decode adds one to "error"; and ok + error is the number of updates
\* handled plus the number of those faults
C16_CountersAccount ==
    /\ [][Handled =>
             metricsTotal' =
                 [metricsTotal EXCEPT
                     ![IF doHandle(handlers, cur.metric).err = ""
                       THEN "ok" ELSE "error"] = @ + 1]]_vars
    /\ [][faults' # faults =>
             metricsTotal' = [metricsTotal EXCEPT !.error = @ + 1]]_vars
    /\ [](metricsTotal.ok + metricsTotal.error
              = Sum(handled) + faults.accept + faults.decode)

\* both updates of a payload handled, one counted "ok" and one "error"
C16_Witness ==
    /\ Sum(handled) = 2
    /\ metricsTotal = [ok |-> 1, error |-> 1]
    /\ faults = [accept |-> 0, decode |-> 0]

\* a DataParser takes the payload the DataReader holds
Taken == readerPc = "send" /\ readerPc' = "accept"

\* C17: the DataReader holds a payload exactly while it waits at dataCh, and
\* reads a connection only when it holds none; a DataParser holds a payload
\* exactly while it has updates of it left to send; and a payload is taken
\* only by a DataParser that holds none, leaving the others as they were -
\* so at most NumWorkers + 1 payloads are held at any time
C17_Backpressure ==
    /\ []((readerPc = "send") <=> (readerBuf # <<>>))
    /\ [](\A d \in Workers :
              /\ (decPc[d] = "send") <=> (decData[d] # <<>>)
              /\ decPc[d] = "send" =>
                     decIdx[d] \in 1..Len(decData[d].metrics))
    /\ [][readerPc' = "send" => readerBuf' = readerBuf \/ readerBuf = <<>>]_vars
    /\ [][Taken =>
             \E d \in Workers :
                 /\ decPc[d] = "recv"
                 /\ \A e \in Workers \ {d} :
                        /\ decPc'[e] = decPc[e]
                        /\ decData'[e] = decData[e]
                        /\ decIdx'[e] = decIdx[e]]_vars

\* every DataParser holds a payload with an update left and the DataReader
\* holds one more, while Process is not running
C17_Witness ==
    /\ readerPc = "send"
    /\ \A d \in Workers : decPc[d] = "send"
    /\ procPc = "idle"

\* Process receives an update from metricCh
Received == procPc = "select" /\ procPc' = "handle"

\* the Metric m is the JSON object o: its name and method, its label values
\* and value where o has them, none and 0 where it has not
SameUpdate(m, o) ==
    /\ m.Name = o.name
    /\ m.Method = o.method
    /\ m.LabelValues = IF "label_values" \in DOMAIN o THEN o.label_values
                       ELSE <<>>
    /\ m.Value = IF "value" \in DOMAIN o THEN o.value ELSE 0

\* C18: update i of a payload is received by Process only after update
\* i - 1 of it has been received and handled; what Process receives is the
\* update its DataParser holds at its position, and that position's number;
\* and the updates a DataParser holds are the JSON objects of the payload
\* it took, in their order, with omitted label values empty and an omitted
\* value 0
C18_InOrderUnchanged ==
    /\ [](\A c \in DOMAIN decoded : \A i \in 2..decoded[c] :
              (Count(c, i) > 0 \/ InHand(c, i)) => Count(c, i - 1) = 1)
    /\ [][Received =>
             \E d \in Workers :
                 /\ decPc[d] = "send"
                 /\ cur'.id = <<decData[d].id, decIdx[d]>>
                 /\ cur'.metric = decData[d].metrics[decIdx[d]]
                 /\ \/ decPc'[d] = "send" /\ decIdx'[d] = decIdx[d] + 1
                    \/ decPc'[d] = "recv" /\
                           decIdx[d] = Len(decData[d].metrics)]_vars
    /\ [][(Taken /\ readerBuf.data.valid) =>
             \A d \in Workers :
                 decData'[d] # decData[d] =>
                     /\ decIdx'[d] = 1
                     /\ decData'[d].id = readerBuf.id
                     /\ Len(decData'[d].metrics)
                            = Len(readerBuf.data.objects)
                     /\ \A i \in 1..Len(readerBuf.data.objects) :
                            SameUpdate(decData'[d].metrics[i],
                                       readerBuf.data.objects[i])]_vars

\* Process holds the second update of a payload, whose object had neither
\* label values nor a value, after it handled the first
C18_Witness ==
    /\ procPc = "handle"
    /\ cur.id[2] = 2
    /\ cur.metric = [Name |-> M1, LabelValues |-> <<>>, Method |-> "inc",
                     Value |-> 0]
    /\ Count(cur.id[1], 1) = 1

\* the send doneCh <- true of the USR1 goroutine completes
SendDone == usr1Pc = "send" /\ usr1Pc' = "wait"

\* an activation of Process returns
Returns == procPc # "idle" /\ procPc' = "idle"

\* C30: a send on doneCh completes only on a step on which the activation
\* of Process that is at its select returns and unlocks, and an activation
\* returns only on a step that completes a send, so sends and returns go one
\* to one; a send issued while Process is not running stays pending; and
\* an activation at its select can take a pending send, also as its first
\* step
C30_StopsOneToOne ==
    /\ [][SendDone => (procPc = "select" /\ Returns /\ mu' = "free")]_vars
    /\ [][Returns => SendDone]_vars
    /\ [][(usr1Pc = "send" /\ procPc = "idle") => usr1Pc' = "send"]_vars
    /\ []((usr1Pc = "send" /\ procPc = "select") => ENABLED ProcStop)

\* a stop signal ended an activation that had handled no update, and the
\* next one is pending on doneCh during the reload that follows
C30_Witness ==
    /\ usr1Pc = "send"
    /\ procPc = "idle"
    /\ stopped
    /\ ctlPc = "reload"
    /\ Sum(handled) = 0
    /\ handlers # <<>>

\* the control loop has ended on an empty registry
Exited == ctlPc = "exited"

\* C31: the control loop never starts Process on a registry without
\* handlers: after a Reload that leaves none it ends.  From then on it stays
\* ended, Process is not running and never runs, no update is received or
\* applied, a stop signal sent on doneCh stays pending, a DataParser with
\* an update to send stays where it is, and once every DataParser is in
\* that position the DataReader stays at its send on dataCh
C31_EmptyRegistryEndsLoop ==
    /\ [](ctlPc = "process" => ~IsEmpty(handlers))
    /\ [][(ctlPc = "isempty" /\ IsEmpty(handlers)) =>
              ctlPc' \in {"isempty", "exited"}]_vars
    /\ [](Exited => (procPc = "idle" /\ IsEmpty(handlers) /\ mu = "free"))
    /\ [][Exited =>
              /\ ctlPc' = "exited"
              /\ procPc' = "idle"
              /\ cur' = cur
              /\ handled' = handled
              /\ collVal' = collVal
              /\ handlers' = handlers
              /\ metricsTotal'.ok = metricsTotal.ok
              /\ usr1Pc = "send" => usr1Pc' = "send"
              /\ \A d \in Workers :
                     decPc[d] = "send" =>
                         /\ decPc'[d] = "send"
                         /\ decData'[d] = decData[d]
                         /\ decIdx'[d] = decIdx[d]
              /\ (readerPc = "send" /\ \A d \in Workers : decPc[d] = "send")
                     => (readerPc' = "send" /\ readerBuf' = readerBuf)]_vars

\* a reload after a stop left the registry empty: the control loop has
\* ended, the next stop signal is pending, every DataParser has an update to
\* send and the DataReader holds a further payload
C31_Witness ==
    /\ Exited
    /\ stopped
    /\ usr1Pc = "send"
    /\ \A d \in Workers : decPc[d] = "send"
    /\ readerPc = "send"

\* C32: the updates of one payload are received in their order, none
\* skipped: an update that its DataParser no longer holds has been received,
\* and after the one before it.  Between payloads there is no such order
\* (see the witness)
C32_OrderOnlyWithinPayload ==
    \A c \in DOMAIN decoded : \A i \in 1..decoded[c] :
        /\ (Count(c, i) > 0 \/ InHand(c, i)) =>
               \A j \in 1..(i - 1) : Count(c, j) = 1
        /\ ~Held(c, i) => (Count(c, i) = 1 \/ InHand(c, i))
        /\ Count(c, i) <= 1

\* the first update of an earlier payload and the update of a later payload
\* have been handled while the second update of the earlier payload is
\* still with its DataParser: the two payloads interleave, and an update of
\* the later one is handled before an update of the earlier one
C32_Witness ==
    \E c1, c2 \in DOMAIN decoded :
        /\ c1 < c2
        /\ decoded[c1] = 2
        /\ Count(c1, 1) = 1
        /\ Count(c2, 1) = 1
        /\ Held(c1, 2)

-----------------------------------------------------------------------------
(* Properties of Handle (SpecReg) *)

IsHandle == lastCall.op = "Handle"

\* the last Handle left the registry, the surface and every collector's
\* value as they were
HandleChangedNothing ==
    /\ handlers = lastRes.before.handlers
    /\ registered = lastRes.before.registered
    /\ collVal = lastRes.before.collVal
    /\ mutated = lastRes.before.mutated

\* the handler the last Handle found under the update's name
Target == lastRes.before.handlers[lastCall.metric.Name]

\* the number of labels of the spec the handler was built from
Arity(handler) == Len(SpecObjects[handler.spec].Labels)

\* C19: Handle with a legal method on an update for a handler built from a
\* spec with k > 0 labels returns an error and changes nothing when the
\* update has another number of label values than k; with a legal method
\* and no label values it succeeds for a handler built from a spec without
\* labels
C19_ArityEnforced ==
    (IsHandle /\ lastCall.metric.Name \in NamesBefore
              /\ lastCall.metric.Method \in Methods(Target.kind)) =>
        /\ (Arity(Target) > 0
                /\ Len(lastCall.metric.LabelValues) # Arity(Target)) =>
               lastRes.err # "" /\ HandleChangedNothing
        /\ (Arity(Target) = 0 /\ lastCall.metric.LabelValues = <<>>) =>
               /\ lastRes.err = ""
               /\ collVal[Target.coll.id]
                      = lastRes.before.collVal[Target.coll.id] + 1

\* a Handle with one label value for the handler of a spec with two labels,
\* whose collector has counted an update
C19_Witness ==
    /\ IsHandle
    /\ lastCall.metric.Name \in NamesBefore
    /\ lastCall.metric.Method \in Methods(Target.kind)
    /\ Arity(Target) = 2
    /\ Len(lastCall.metric.LabelValues) = 1
    /\ lastRes.before.collVal[Target.coll.id] = 1

\* C20: Handle on an update whose name has no handler returns an error and
\* changes neither the handlers, nor a collector's value, nor what is
\* registered with the surface
C20_UnknownNameNoEffect ==
    (IsHandle /\ lastCall.metric.Name \notin NamesBefore) =>
        lastRes.err # "" /\ HandleChangedNothing

\* a Handle for a name without handler, in a registry with two handlers one
\* of whose collectors has counted an update
C20_Witness ==
    /\ IsHandle
    /\ lastCall.metric.Name \notin NamesBefore
    /\ Cardinality(NamesBefore) = 2
    /\ \E id \in DOMAIN lastRes.before.collVal :
           lastRes.before.collVal[id] = 1

-----------------------------------------------------------------------------
(* Properties of failing items of a Reload (SpecReg) *)

\* the only register attempt for its name in the last Reload returned an
\* error
FailedOnce(i) == lastRes.regErr[i] # "" /\ Occ(SpecName(i)) = {i}

\* C21 as stated: a register attempt that returns an error leaves the map
\* as it was before the attempt - after the Reload its name has the handler
\* it had before the Reload, or none when it had none
C21_FailedRegisterKeepsMap ==
    IsReload =>
        \A i \in 1..Len(lastCall.specs) :
            FailedOnce(i) =>
                IF SpecName(i) \in NamesBefore
                THEN /\ SpecName(i) \in Names
                     /\ handlers[SpecName(i)]
                            = lastRes.before.handlers[SpecName(i)]
                ELSE SpecName(i) \notin Names

\* the names the last Reload tried to unregister and the surface refused
Refused == {n \in DOMAIN lastRes.unregErr : lastRes.unregErr[n] = "unregister"}

\* C22: a name whose unregister failed because the surface refused to
\* unregister its collector is still in the map after the Reload, with the
\* handler it had and that handler's collector still registered, so the
\* next Reload finds the name and can try again
C22_RefusedUnregisterKeepsHandler ==
    IsReload =>
        \A n \in Refused :
            /\ n \in NamesBefore
            /\ n \in Names
            /\ handlers[n] = lastRes.before.handlers[n]
            /\ handlers[n].coll \in registered

\* a Reload that removed one name and was refused the removal of another,
\* whose collector has counted an update
C22_Witness ==
    /\ IsReload
    /\ NamesBefore \ Names # {}
    /\ \E n \in Refused : collVal[handlers[n].coll.id] = 1

\* the spec at position i is the only one of its name, the name had no
\* handler, and register finds nothing wrong with the spec
NewAndValid(i) ==
    /\ Occ(SpecName(i)) = {i}
    /\ SpecName(i) \notin NamesBefore
    /\ validateMetric(SpecName(i))
    /\ buildHandler(heap[lastCall.specs[i]], lastCall.specs[i], 0).err = ""

\* C23: a Reload attempts to register every spec of its list and to
\* unregister every name it had that is absent from the list, whatever fails
\* before: every spec has its outcome, every such name has its outcome, and a
\* new, valid spec is registered wherever it stands in the list unless the
\* surface refuses it
C23_FailuresDoNotBlock ==
    IsReload =>
        /\ Len(lastRes.regErr) = Len(lastCall.specs)
        /\ DOMAIN lastRes.unregErr
               = NamesBefore \ {SpecName(i) : i \in 1..Len(lastCall.specs)}
        /\ \A n \in DOMAIN lastRes.unregErr :
               lastRes.unregErr[n] = "" => n \notin Names
        /\ \A i \in 1..Len(lastCall.specs) :
               NewAndValid(i) =>
                   /\ lastRes.regErr[i] \in {"", "register"}
                   /\ lastRes.regErr[i] = "" =>
                          /\ SpecName(i) \in Names
                          /\ handlers[SpecName(i)].spec = lastCall.specs[i]

\* the first spec of a list of two was refused, the second, a new one, was
\* registered after it, and a name absent from the list was unregistered
C23_Witness ==
    /\ IsReload
    /\ Len(lastCall.specs) = 2
    /\ lastRes.regErr[1] # ""
    /\ NewAndValid(2)
    /\ lastRes.regErr[2] = ""
    /\ \E n \in DOMAIN lastRes.unregErr : lastRes.unregErr[n] = ""

\* C33: every name a Reload calls unregister for is a name it found in the
\* map and that no spec of its list carries, and unregister finds the
\* handler: its outcome is never "does not exist"
C33_UnregisterFindsHandler ==
    IsReload =>
        \A n \in DOMAIN lastRes.unregErr :
            /\ n \in NamesBefore
            /\ Occ(n) = {}
            /\ lastRes.unregErr[n] # "does not exist"

\* the register phase of a Reload took a name out of the map (its collector
\* was unregistered and the surface refused it back) and the unregister
\* phase was run for another name
C33_Witness ==
    /\ IsReload
    /\ DOMAIN lastRes.unregErr # {}
    /\ \E i \in 1..Len(lastCall.specs) :
           /\ lastRes.regErr[i] = "register"
           /\ SpecName(i) \in NamesBefore
           /\ SpecName(i) \notin Names

-----------------------------------------------------------------------------
(* Properties of the lock (SpecCalls) *)

\* the next statement of goroutine g reads or writes r.handlers
Accessing(g) ==
    callPc[g] \in {"isempty", "names", "dohandle", "register", "unregister",
                   "select"}

\* C24 as stated: a goroutine about to read or write the handler map holds
\* the mutex, and no two goroutines are at the map at once
C24_MapAccessUnderLock ==
    /\ \A g \in Callers : Accessing(g) => mu = g
    /\ \A g, h \in Callers : (Accessing(g) /\ Accessing(h)) => g = h

\* goroutine g is inside Process: the run-loop is active, or has taken the
\* stop and is about to return
InProcess(g) == callOp[g] = "Process" /\ callPc[g] \in {"select", "unlock"}

\* C29: a goroutine inside Process holds the mutex from its Lock to its
\* return; a goroutine that has called Handle, Names or Reload meanwhile is
\* still at its Lock; and the run-loop ends only by taking a stop, after
\* which Process unlocks and returns
C29_ProcessHoldsLock ==
    /\ [](\A g \in Callers : InProcess(g) => mu = g)
    /\ [](\A g, h \in Callers :
              (/\ InProcess(g)
               /\ h # g
               /\ callOp[h] \in {"Handle", "Names", "Reload"}) =>
                  callPc[h] = "lock")
    /\ [][\A g \in Callers :
              (callOp[g] = "Process" /\ callPc[g] = "select") =>
                  /\ callPc'[g] \in {"select", "unlock"}
                  /\ mu' = g]_vars

\* the run-loop of one goroutine is active on a registry with handlers
\* while the other goroutine waits at the Lock of Reload
C29_Witness ==
    \E g, h \in Callers :
        /\ callOp[g] = "Process"
        /\ callPc[g] = "select"
        /\ handlers # <<>>
        /\ callOp[h] = "Reload"
        /\ callPc[h] = "lock"

-----------------------------------------------------------------------------
(* Properties of termination (SpecTerm) *)

\* C25 as stated: termination closes the listener before the process ends,
\* and once ln.Accept has returned the error of the closed listener the
\* DataReader is out of its accept loop (in a process that still runs, it is
\* neither back at ln.Accept nor holding a payload)
C25_CloseEndsAcceptLoop ==
    /\ termPc \in {"exit", "gone"} => ln = "closed"
    /\ (seenClosed /\ termPc # "gone") => readerPc \notin {"accept", "send"}

\* goroutine h is inside Reload, between its Lock and its Unlock
InReload(h) ==
    /\ callOp[h] = "Reload"
    /\ callPc[h] \in {"names", "register", "unregister", "unlock"}

\* the next statement of goroutine g is the read of the map that Names or
\* Handle makes
Observing(g) ==
    \/ callOp[g] = "Names" /\ callPc[g] = "names"
    \/ callOp[g] = "Handle" /\ callPc[g] = "dohandle"

\* C26: a goroutine reads the map for Names or Handle only when no other
\* goroutine is inside Reload, so what it sees is the map as a Reload found
\* it or as a Reload left it; and a goroutine inside Reload holds the mutex
\* through all its register and unregister steps
C26_ReloadAtomic ==
    /\ \A g, h \in Callers : (Observing(g) /\ h # g) => ~InReload(h)
    /\ \A h \in Callers : InReload(h) => mu = h

\* one goroutine is inside Reload, has registered the first of two specs
\* and changed the names the Reload found, while the other waits at the
\* Lock of Names
C26_Witness ==
    \E g, h \in Callers :
        /\ callOp[h] = "Reload"
        /\ callPc[h] = "register"
        /\ Len(callLoc[h].specs) = 2
        /\ callLoc[h].i = 2
        /\ callLoc[h].names # doNames(handlers)
        /\ callOp[g] = "Names"
        /\ callPc[g] = "lock"

-----------------------------------------------------------------------------
(* Properties of register on its own (SpecRegister) *)

\* the identifier grammar: a lowercase letter, then lowercase letters,
\* digits and underscores
Identifier(str) ==
    /\ Len(str) >= 1
    /\ str[1] \in Lower
    /\ \A i \in 1..Len(str) : str[i] \in Lower \cup Digit \cup {"_"}

Distinct(seq) == \A i, j \in 1..Len(seq) : i # j => seq[i] # seq[j]

IsRegister == lastCall.op = "register"

\* register built a handler for the spec and stored it under its name
Built ==
    /\ lastRes.err = ""
    /\ DOMAIN handlers = {lastCall.spec.Name}
    /\ Cardinality(registered) = 1

\* register returned an error and touched neither the map nor the surface
Rejected == lastRes.err # "" /\ handlers = <<>> /\ registered = {}

\* C27 as stated: register of a spec with a name register accepts and a
\* non-empty label list, for a name without handler, fails and builds
\* nothing when a label violates the identifier grammar or two labels are
\* equal, and passes these checks when every label is an identifier and
\* all are distinct
C27_LabelsValidated ==
    (/\ IsRegister
     /\ validateMetric(lastCall.spec.Name)
     /\ Len(lastCall.spec.Labels) > 0) =>
        IF /\ \A i \in 1..Len(lastCall.spec.Labels) :
                  Identifier(lastCall.spec.Labels[i])
           /\ Distinct(lastCall.spec.Labels)
        THEN Built
        ELSE Rejected

\* C28 as stated: register of a spec without labels accepts the name, and
\* builds and stores its handler, exactly when the name is an identifier;
\* any other name is rejected with the map and the surface untouched
C28_NameGrammar ==
    (IsRegister /\ lastCall.spec.Labels = <<>>) =>
        IF Identifier(lastCall.spec.Name) THEN Built ELSE Rejected

====
